---- MODULE Spec2Model ----
(***************************************************************************)
(* Model of the smart-mail-relay scheduler and processing cycle:           *)
(*   internal/service/scheduler/scheduler.go  (Start, Stop, IsRunning,     *)
(*                                             RunOnce, GetNextRun,        *)
(*                                             GetLastRun)                 *)
(*   internal/service/scheduler/process.go    (processEmails, processEmail)*)
(*   internal/service/mail_service.go         (fetchers, EmailParser,      *)
(*                                             ledger, audit,              *)
(*                                             EmailForwarder)             *)
(* The cron library (robfig/cron v3) is modelled by its running flag, its  *)
(* entry table and its job wait group.                                     *)
(***************************************************************************)
EXTENDS Integers, Sequences, FiniteSets, TLC

\* ------------------------------------------------------------------ bounds
\* number of cycle slots (cycles that can be in flight at the same time)
MaxSlots == 2
\* total number of cycles launched in one behaviour
MaxCycles == 2
\* number of successful Start() calls in one behaviour
MaxStarts == 2

\* number of responses a sink behaviour lists, one per send attempt
SinkLen == 4

\* longest key handed to findMatchingRule on its own
MaxKeyLen == 2

\* longest subject handed to ExtractKeyword on its own
MaxSubjectLen == 3

Slots == 1..MaxSlots

\* ForwardEmail: for attempt := 1; attempt <= 3; attempt++
MaxAttempts == 3

\* --------------------------------------------------------------- mailbox
\* Character sequences stand for Go strings.
Msgs == {"m1", "m2"}

Subject(m) ==
    IF m = "m1" THEN <<"a", "b", " ", "-", " ", "x">>
    ELSE <<"z", "z">>

\* forward_rules table: rows in primary-key order.  The keyword column has a
\* unique index, which under the database's case-insensitive collation admits
\* no two keywords that differ in case only.
Rules ==
    << [ID |-> 1, Keyword |-> <<"a", "b">>, Enabled |-> TRUE],
       [ID |-> 2, Keyword |-> <<"q">>, Enabled |-> FALSE],
       [ID |-> 3, Keyword |-> <<"B">>, Enabled |-> TRUE] >>

\* The mailbox in arrival order.  A point in time is the number of mailbox
\* messages that have arrived by then.
Mailbox == <<"m1", "m2">>

\* The batches FetchNewEmails can return: the mailbox messages newer than the
\* fetcher's lastCheck, in mailbox order.
Batches == { <<>>, <<"m1">>, <<"m2">>, <<"m1", "m2">> }

\* ---------------------------------------------------------- rule matcher
IsSpace(ch) == ch = " "

\* strings.ToLower / SQL LOWER on one character
Lower(ch) ==
    CASE ch = "A" -> "a"
      [] ch = "B" -> "b"
      [] ch = "Q" -> "q"
      [] ch = "X" -> "x"
      [] ch = "Z" -> "z"
      [] OTHER -> ch

LowerStr(s) == [i \in 1..Len(s) |-> Lower(s[i])]

\* strings.TrimSpace
TrimSpace(s) ==
    LET nonSpace == { i \in 1..Len(s) : ~IsSpace(s[i]) }
    IN  IF nonSpace = {} THEN <<>>
        ELSE SubSeq(s, CHOOSE i \in nonSpace : \A j \in nonSpace : i <= j,
                       CHOOSE i \in nonSpace : \A j \in nonSpace : j <= i)

\* strings.Fields(s)[0], or the empty string when there is no field
FirstField(s) ==
    LET t == TrimSpace(s)
        spaces == { i \in 1..Len(t) : IsSpace(t[i]) }
    IN  IF spaces = {} THEN t
        ELSE SubSeq(t, 1, (CHOOSE i \in spaces : \A j \in spaces : i <= j) - 1)

\* position of the first "-" of s, 0 when there is none
FirstDash(s) ==
    LET dashes == { i \in 1..Len(s) : s[i] = "-" }
    IN  IF dashes = {} THEN 0
        ELSE CHOOSE i \in dashes : \A j \in dashes : i <= j

\* EmailParser.ExtractKeyword: the regular expression ^([^-]+)\s*-\s*(.+)$
\* matches the trimmed subject exactly when its first "-" has at least one
\* character before it and at least one after it; group 1 is what precedes it.
ExtractKeyword(subject) ==
    IF subject = <<>> THEN <<>>
    ELSE LET t == TrimSpace(subject)
             d == FirstDash(t)
         IN  IF d >= 2 /\ d < Len(t)
             THEN TrimSpace(SubSeq(t, 1, d - 1))
             ELSE FirstField(t)

\* SQL: a = b under the collation utf8mb4_unicode_ci of the database, which
\* ignores case
SqlEq(a, b) == LowerStr(a) = LowerStr(b)

\* SQL: s LIKE p under the same collation: in the pattern "%" stands for any
\* run of characters and "_" for any one character
RECURSIVE Like(_, _)
Like(s, p) ==
    IF p = <<>> THEN s = <<>>
    ELSE IF Head(p) = "%"
    THEN Like(s, Tail(p)) \/ (s # <<>> /\ Like(Tail(s), p))
    ELSE IF s = <<>> THEN FALSE
    ELSE /\ Head(p) = "_" \/ Lower(Head(p)) = Lower(Head(s))
         /\ Like(Tail(s), Tail(p))

\* SQL: keyword LIKE ? with the argument "%"+k+"%"; k is not escaped
Contains(s, k) == Like(s, <<"%">> \o k \o <<"%">>)

\* db.Where(...).First(&rule): among the enabled rows that match, the one
\* with the smallest primary key; 0 stands for gorm.ErrRecordNotFound
FirstRule(hits) ==
    LET rows == { i \in hits : Rules[i].Enabled }
    IN  IF rows = {} THEN 0
        ELSE Rules[CHOOSE i \in rows : \A j \in rows : i <= j].ID

\* EmailParser.findMatchingRule without store errors: exact, then
\* case-insensitive, then partial match; 0 when no rule matches
findMatchingRule(keyword) ==
    LET rows == 1..Len(Rules)
        exact == { i \in rows : SqlEq(Rules[i].Keyword, keyword) }
        nocase == { i \in rows : LowerStr(Rules[i].Keyword) = LowerStr(keyword) }
        partial == { i \in rows : Contains(Rules[i].Keyword, keyword) }
    IN  IF FirstRule(exact) # 0 THEN FirstRule(exact)
        ELSE IF FirstRule(nocase) # 0 THEN FirstRule(nocase)
        ELSE FirstRule(partial)

\* a ParseAndMatchEmail that hands every key, the empty one too, to the lookup
ParseAndMatchSubjectNoGuard(subject) == findMatchingRule(ExtractKeyword(subject))

\* EmailParser.ParseAndMatchEmail without store errors, as a function of the
\* subject: the rule id, 0 for nil; an empty keyword returns before the lookup
ParseAndMatchSubject(subject) ==
    LET keyword == ExtractKeyword(subject)
    IN  IF keyword = <<>> THEN 0 ELSE findMatchingRule(keyword)

\* EmailParser.ParseAndMatchEmail for a message of the mailbox
ParseAndMatchEmail(m) == ParseAndMatchSubject(Subject(m))

\* -------------------------------------------------------------- forwarder
\* What Users.Messages.Send answers to one attempt: success, an error whose
\* text contains "quota" or "rate", or any other error.
Responses == {"ok", "rate", "other"}

\* A sink behaviour lists the answer to each successive send attempt.
SinkBehaviours == [1..SinkLen -> Responses]

\* sinks that give every attempt the same answer
Sinks == { [i \in 1..SinkLen |-> r] : r \in Responses }

\* a classification that takes every error for a rate limit
IsRateLimitAny(r) == r # "ok"

\* strings.Contains(err.Error(), "quota") || strings.Contains(err.Error(), "rate")
IsRateLimit(r) == r = "rate"

\* a backoff that grows linearly
BackoffLinear(attempt) == attempt

\* time.Duration(attempt*attempt) * time.Second, in seconds
Backoff(attempt) == attempt * attempt

\* a send loop without the bound on the attempts
RECURSIVE SendLoopUnbounded(_, _, _, _)
SendLoopUnbounded(sink, attempt, waits, lastErr) ==
    IF attempt > Len(sink)
    THEN [ok |-> FALSE, attempts |-> attempt - 1, waits |-> waits, err |-> lastErr]
    ELSE IF sink[attempt] = "ok"
    THEN [ok |-> TRUE, attempts |-> attempt, waits |-> waits, err |-> "none"]
    ELSE IF IsRateLimit(sink[attempt])
    THEN SendLoopUnbounded(sink, attempt + 1, Append(waits, Backoff(attempt)),
                           sink[attempt])
    ELSE [ok |-> FALSE, attempts |-> attempt, waits |-> waits, err |-> sink[attempt]]

\* The retry loop of ForwardEmail from the given attempt on.  The result
\* records whether nil was returned, the sends made, the sleeps made (in
\* seconds, in order) and the error wrapped in the returned error.
RECURSIVE SendLoop(_, _, _, _)
SendLoop(sink, attempt, waits, lastErr) ==
    IF attempt > MaxAttempts
    THEN [ok |-> FALSE, attempts |-> attempt - 1, waits |-> waits, err |-> lastErr]
    ELSE IF sink[attempt] = "ok"
    THEN [ok |-> TRUE, attempts |-> attempt, waits |-> waits, err |-> "none"]
    ELSE IF IsRateLimit(sink[attempt])
    THEN SendLoop(sink, attempt + 1, Append(waits, Backoff(attempt)), sink[attempt])
    ELSE [ok |-> FALSE, attempts |-> attempt, waits |-> waits, err |-> sink[attempt]]

\* a forward that reports success whatever the retry loop returned
ForwardEmailSwallows(sink) == [SendLoop(sink, 1, <<>>, "none") EXCEPT !.ok = TRUE]

\* EmailForwarder.ForwardEmail: createForwardedEmail never fails, then the
\* retry loop from attempt 1
ForwardEmail(sink) == SendLoop(sink, 1, <<>>, "none")

VARIABLES
    isRunning,      \* Scheduler.isRunning
    ctxCancelled,   \* s.ctx.Err() != nil
    muHolder,       \* who holds s.mu exclusively: "none" or "Stop"
    cronRunning,    \* cron.Cron.running
    entries,        \* cron.Cron.entries (entry ids)
    entryID,        \* Scheduler.entryID
    stopPc,         \* "idle", or "waiting" while Stop() is in its select
    lastCall,       \* the last control call that returned, with its result
    cyc,            \* the cycles (processEmails invocations) in flight
    launched,       \* number of cycles launched so far
    processed,      \* processed_emails: number of rows per message id
    auditLog,       \* forward_logs rows, in insertion order
    delivered,      \* number of times the sink accepted each message
    metrics,        \* Prometheus counters
    lastCheck,      \* the fetcher's lastCheck, as a point in time
    useIMAP,        \* cfg.Gmail.UseIMAP: the fetcher is the IMAPFetcher
    fwdCall,        \* a ForwardEmail call made on its own: sink and result
    parserCall,     \* an EmailParser call made on its own: argument and result
    mainPc          \* where main is: "serving", then the steps of its shutdown

vars == << isRunning, ctxCancelled, muHolder, cronRunning, entries, entryID,
           stopPc, lastCall, cyc, launched,
           processed, auditLog, delivered, metrics,
           lastCheck, useIMAP, fwdCall, parserCall, mainPc >>

schedVars == << isRunning, ctxCancelled, muHolder, cronRunning, entries, entryID >>
callVars == << stopPc, lastCall >>
storeVars == << processed, auditLog, delivered, metrics >>
fetcherVars == << lastCheck, useIMAP >>
harnessVars == << fwdCall, parserCall >>

FreeCycle ==
    [pc |-> "free", origin |-> "none", since |-> 0, batch |-> <<>>, idx |-> 0,
     dispatched |-> {}, skipped |-> {}, atStop |-> FALSE]

\* no ForwardEmail call made on its own
IdleCall == [state |-> "idle", sink |-> <<>>, res |-> <<>>]

\* scheduler.go New: not running, context active, cron created but not started;
\* the fetcher is built as the configuration says, its lastCheck 24 h back,
\* before every message of the mailbox
InitApp ==
    /\ isRunning = FALSE
    /\ ctxCancelled = FALSE
    /\ muHolder = "none"
    /\ cronRunning = FALSE
    /\ entries = {}
    /\ entryID = 0
    /\ stopPc = "idle"
    /\ lastCall = "none"
    /\ cyc = [c \in Slots |-> FreeCycle]
    /\ launched = 0
    /\ processed = [m \in Msgs |-> 0]
    /\ auditLog = <<>>
    /\ delivered = [m \in Msgs |-> 0]
    /\ metrics = [PullCount |-> 0, MatchCount |-> 0,
                  ForwardSuccesses |-> 0, ForwardFailures |-> 0]
    /\ lastCheck = 0
    /\ useIMAP \in BOOLEAN
    /\ mainPc = "serving"

\* no EmailParser call made on its own
IdleParse == [op |-> "none", state |-> "idle", arg |-> <<>>, res |-> <<>>]

Init ==
    /\ InitApp
    /\ fwdCall = IdleCall
    /\ parserCall = IdleParse

\* cycles in flight, and those the cron job wait group counts
InFlight == { c \in Slots : cyc[c].pc # "free" }
JobWaiter == { c \in Slots : cyc[c].pc # "free" /\ cyc[c].origin = "tick" }

\* ------------------------------------------------------------------ store
\* a ledger lookup that never finds the record
IsEmailProcessedNever(m) == FALSE

\* EmailParser.IsEmailProcessed: a row with this message_id exists
IsEmailProcessed(m) == processed[m] > 0

\* a ledger insert into a table without the unique index on message_id
MarkEmailAsProcessedNoIndex(m, storeOk) ==
    IF storeOk THEN [processed EXCEPT ![m] = @ + 1] ELSE processed

\* EmailParser.MarkEmailAsProcessed: db.Create on a table whose message_id
\* column carries a unique index; the insert fails when the store fails or
\* when a row for m exists, and the table is then unchanged.
MarkEmailAsProcessed(m, storeOk) ==
    IF storeOk /\ processed[m] = 0
    THEN [processed EXCEPT ![m] = @ + 1]
    ELSE processed

\* EmailParser.MarkEmailAsProcessed, its return value: whether it returns the
\* error of db.Create, which fails when the store fails and when the unique
\* index rejects a second row for m
MarkEmailAsProcessedError(m, storeOk) == ~storeOk \/ processed[m] > 0

\* a log write that replaces the earlier rows of the message
LogForwardAttemptUpsert(log, m, ruleID, status, storeOk) ==
    IF storeOk
    THEN Append(SelectSeq(log, LAMBDA r : r.MessageID # m),
                [MessageID |-> m, RuleID |-> ruleID, Status |-> status])
    ELSE log

\* EmailParser.LogForwardAttempt: one forward_logs row, unless the store fails
LogForwardAttempt(log, m, ruleID, status, storeOk) ==
    IF storeOk
    THEN Append(log, [MessageID |-> m, RuleID |-> ruleID, Status |-> status])
    ELSE log

\* ------------------------------------------------------------- scheduler
\* a Start that does not look at the running flag
StartUnguarded ==
    /\ muHolder = "none"
    /\ Cardinality(entries) < MaxStarts
    /\ entries' = entries \cup {Cardinality(entries) + 1}
    /\ entryID' = Cardinality(entries) + 1
    /\ cronRunning' = TRUE
    /\ isRunning' = TRUE
    /\ lastCall' = "Start:ok"
    /\ UNCHANGED << ctxCancelled, muHolder, stopPc, cyc, launched, storeVars >>
    /\ UNCHANGED << fetcherVars, harnessVars, mainPc >>

\* a Start that refuses once a cron entry is registered
StartOnce ==
    /\ muHolder = "none"
    /\ IF isRunning \/ entries # {}
       THEN /\ lastCall' = "Start:already_running"
            /\ UNCHANGED << isRunning, cronRunning, entries, entryID >>
       ELSE /\ entries' = {1}
            /\ entryID' = 1
            /\ cronRunning' = TRUE
            /\ isRunning' = TRUE
            /\ lastCall' = "Start:ok"
    /\ UNCHANGED << ctxCancelled, muHolder, stopPc, cyc, launched, storeVars >>
    /\ UNCHANGED << fetcherVars, harnessVars, mainPc >>

\* Scheduler.Start (scheduler.go): under s.mu; refuses when running, else adds
\* a cron entry, starts the cron and sets the flag.  The schedule string is
\* valid for every configured interval (config validation requires > 0).
Start ==
    /\ muHolder = "none"
    /\ IF isRunning
       THEN /\ lastCall' = "Start:already_running"
            /\ UNCHANGED << isRunning, cronRunning, entries, entryID >>
       ELSE /\ Cardinality(entries) < MaxStarts
            /\ entries' = entries \cup {Cardinality(entries) + 1}
            /\ entryID' = Cardinality(entries) + 1
            /\ cronRunning' = TRUE
            /\ isRunning' = TRUE
            /\ lastCall' = "Start:ok"
    /\ UNCHANGED << ctxCancelled, muHolder, stopPc, cyc, launched, storeVars >>
    /\ UNCHANGED << fetcherVars, harnessVars, mainPc >>

\* a Stop that does not look at the running flag
StopBeginUnguarded ==
    /\ muHolder = "none"
    /\ stopPc = "idle"
    /\ ctxCancelled' = TRUE
    /\ cronRunning' = FALSE
    /\ muHolder' = "Stop"
    /\ stopPc' = "waiting"
    /\ cyc' = [c \in Slots |->
                 [cyc[c] EXCEPT !.atStop = (cyc[c].pc \notin {"free", "start"})]]
    /\ UNCHANGED << lastCall, isRunning, entries, entryID, launched, storeVars >>
    /\ UNCHANGED << fetcherVars, harnessVars, mainPc >>

\* Scheduler.Stop up to its select: takes s.mu; returns at once when not
\* running; else cancels the context, stops the cron and waits, s.mu held.
\* atStop marks the cycles that are past their running check at this moment.
StopEnter ==
    /\ muHolder = "none"
    /\ stopPc = "idle"
    /\ IF ~isRunning
       THEN /\ lastCall' = "Stop:noop"
            /\ UNCHANGED << ctxCancelled, cronRunning, muHolder, stopPc, cyc >>
       ELSE /\ ctxCancelled' = TRUE
            /\ cronRunning' = FALSE
            /\ muHolder' = "Stop"
            /\ stopPc' = "waiting"
            /\ cyc' = [c \in Slots |->
                         [cyc[c] EXCEPT !.atStop = (cyc[c].pc \notin {"free", "start"})]]
            /\ UNCHANGED lastCall
    /\ UNCHANGED << isRunning, entries, entryID, launched, storeVars >>
    /\ UNCHANGED << fetcherVars, harnessVars >>

\* Stop() called by the REST handler
StopBegin ==
    /\ StopEnter
    /\ UNCHANGED mainPc

\* Scheduler.Stop, case <-ctx.Done(): the cron's job wait group is empty
StopDrained ==
    /\ stopPc = "waiting"
    /\ JobWaiter = {}
    /\ isRunning' = FALSE
    /\ muHolder' = "none"
    /\ stopPc' = "idle"
    /\ lastCall' = "Stop:graceful"
    /\ UNCHANGED << ctxCancelled, cronRunning, entries, entryID, cyc, launched,
                    storeVars >>
    /\ UNCHANGED << fetcherVars, harnessVars, mainPc >>

\* a Stop whose select has no timeout case
StopTimeoutMissing ==
    /\ stopPc = "waiting"
    /\ FALSE
    /\ UNCHANGED vars

\* Scheduler.Stop, case <-time.After(30 * time.Second): the 30 s have passed
\* with a cron job still in flight (with none, the Done case is ready at once)
StopTimeout ==
    /\ stopPc = "waiting"
    /\ JobWaiter # {}
    /\ isRunning' = FALSE
    /\ muHolder' = "none"
    /\ stopPc' = "idle"
    /\ lastCall' = "Stop:timeout"
    /\ UNCHANGED << ctxCancelled, cronRunning, entries, entryID, cyc, launched,
                    storeVars >>
    /\ UNCHANGED << fetcherVars, harnessVars, mainPc >>

\* Scheduler.IsRunning: reads the flag under s.mu.RLock
IsRunning ==
    /\ muHolder = "none"
    /\ lastCall' = IF isRunning THEN "IsRunning:true" ELSE "IsRunning:false"
    /\ UNCHANGED << schedVars, stopPc, cyc, launched, storeVars >>
    /\ UNCHANGED << fetcherVars, harnessVars, mainPc >>

\* Scheduler.GetNextRun: reads the flag without taking s.mu; the zero time
\* when not running, else the Next field of the cron entry
GetNextRun ==
    /\ lastCall' = IF isRunning THEN "GetNextRun:entry" ELSE "GetNextRun:zero"
    /\ UNCHANGED << schedVars, stopPc, cyc, launched, storeVars >>
    /\ UNCHANGED << fetcherVars, harnessVars, mainPc >>

\* Scheduler.GetLastRun: reads the flag without taking s.mu; the zero time
\* when not running, else the Prev field of the cron entry
GetLastRun ==
    /\ lastCall' = IF isRunning THEN "GetLastRun:entry" ELSE "GetLastRun:zero"
    /\ UNCHANGED << schedVars, stopPc, cyc, launched, storeVars >>
    /\ UNCHANGED << fetcherVars, harnessVars, mainPc >>

\* A cycle is launched in the first free slot.
Launch(c, origin) ==
    /\ cyc[c].pc = "free"
    /\ \A d \in Slots : d < c => cyc[d].pc # "free"
    /\ launched < MaxCycles
    /\ launched' = launched + 1
    /\ cyc' = [cyc EXCEPT ![c] = [FreeCycle EXCEPT !.pc = "start", !.origin = origin]]

\* The cron's run loop fires the entry: startJob adds to the job wait group
\* and runs s.processEmails in a goroutine of its own.
TimerFire(c) ==
    /\ cronRunning
    /\ entries # {}
    /\ Launch(c, "tick")
    /\ UNCHANGED << schedVars, callVars, storeVars >>
    /\ UNCHANGED << fetcherVars, harnessVars, mainPc >>

\* a RunOnce that sets the running flag so that its cycle passes the check
RunOncePinsFlag(c) ==
    /\ Launch(c, "runonce")
    /\ isRunning' = TRUE
    /\ UNCHANGED << ctxCancelled, muHolder, cronRunning, entries, entryID,
                    callVars, storeVars >>
    /\ UNCHANGED << fetcherVars, harnessVars, mainPc >>

\* Scheduler.RunOnce: calls s.processEmails directly, whatever the state
RunOnce(c) ==
    /\ Launch(c, "runonce")
    /\ UNCHANGED << schedVars, callVars, storeVars >>
    /\ UNCHANGED << fetcherVars, harnessVars, mainPc >>

\* ------------------------------------------------------------------ cycle
\* the message processEmail is working on
Cur(c) == cyc[c].batch[cyc[c].idx]

\* processEmail returned: on to the next message of the range loop, or to the
\* end of processEmails
Advance(r) ==
    IF r.idx < Len(r.batch)
    THEN [r EXCEPT !.idx = @ + 1, !.pc = "check"]
    ELSE [r EXCEPT !.pc = "end"]

\* a cycle that does not look at the running flag
CycleStartUnguarded(c) ==
    /\ cyc[c].pc = "start"
    /\ muHolder = "none"
    /\ cyc' = [cyc EXCEPT ![c].pc = "fetch"]
    /\ UNCHANGED << schedVars, callVars, launched, storeVars >>
    /\ UNCHANGED << fetcherVars, harnessVars, mainPc >>

\* processEmails, first part: wg.Add(1), then the running check under
\* s.mu.RLock; a cycle that finds the scheduler not running returns.
CycleStart(c) ==
    /\ cyc[c].pc = "start"
    /\ muHolder = "none"
    /\ cyc' = [cyc EXCEPT ![c].pc = IF isRunning THEN "fetch" ELSE "end"]
    /\ UNCHANGED << schedVars, callVars, launched, storeVars >>
    /\ UNCHANGED << fetcherVars, harnessVars, mainPc >>

\* processEmails: PullCount.Inc, then FetchNewEmails up to its request to the
\* source: the query is built from the lastCheck read at this moment.
FetchQuery(c) ==
    /\ cyc[c].pc = "fetch"
    /\ cyc' = [cyc EXCEPT ![c].pc = "list", ![c].since = lastCheck]
    /\ metrics' = [metrics EXCEPT !.PullCount = @ + 1]
    /\ UNCHANGED << schedVars, callVars, launched, processed, auditLog, delivered,
                    fetcherVars, harnessVars, mainPc >>

\* What the source returns at time now to a query built from since: the Gmail
\* API ("after:<since>") the messages that arrived after since; IMAP (SINCE,
\* which compares dates only) every message of the day.
Window(since, now) ==
    IF useIMAP THEN SubSeq(Mailbox, 1, now) ELSE SubSeq(Mailbox, since + 1, now)

\* a fetch whose failure moves the checkpoint to the present all the same
FetchErrorMovesCheckpoint(c, fetchOk, batch) ==
    /\ cyc[c].pc = "list"
    /\ IF fetchOk
       THEN /\ \E now \in lastCheck..Len(Mailbox) :
                   /\ batch = Window(cyc[c].since, now)
                   /\ lastCheck' = now
            /\ cyc' = [cyc EXCEPT ![c] =
                         IF batch = <<>> THEN [@ EXCEPT !.pc = "end", !.since = 0]
                         ELSE [@ EXCEPT !.pc = "check", !.since = 0,
                                        !.batch = batch, !.idx = 1]]
            /\ UNCHANGED metrics
       ELSE /\ cyc' = [cyc EXCEPT ![c].pc = "end", ![c].since = 0]
            /\ metrics' = [metrics EXCEPT !.ForwardFailures = @ + 1]
            /\ lastCheck' = Len(Mailbox)
    /\ UNCHANGED << schedVars, callVars, launched, processed, auditLog, delivered,
                    useIMAP, harnessVars, mainPc >>

\* FetchNewEmails returns.  On success the fetcher sets lastCheck to the
\* current time before it hands the batch to processEmails; a fetch error
\* leaves lastCheck alone, counts a failure and ends the cycle.
Fetch(c, fetchOk, batch) ==
    /\ cyc[c].pc = "list"
    /\ IF fetchOk
       THEN /\ \E now \in lastCheck..Len(Mailbox) :
                   /\ batch = Window(cyc[c].since, now)
                   /\ lastCheck' = now
            /\ cyc' = [cyc EXCEPT ![c] =
                         IF batch = <<>> THEN [@ EXCEPT !.pc = "end", !.since = 0]
                         ELSE [@ EXCEPT !.pc = "check", !.since = 0,
                                        !.batch = batch, !.idx = 1]]
            /\ UNCHANGED metrics
       ELSE /\ cyc' = [cyc EXCEPT ![c].pc = "end", ![c].since = 0]
            /\ metrics' = [metrics EXCEPT !.ForwardFailures = @ + 1]
            /\ UNCHANGED lastCheck
    /\ UNCHANGED << schedVars, callVars, launched, processed, auditLog, delivered,
                    useIMAP, harnessVars, mainPc >>

\* a check step that writes a "skipped" row for a message it finds ledgered
CheckMsgLogsReplay(c, storeOk) ==
    /\ cyc[c].pc = "check"
    /\ cyc' = [cyc EXCEPT ![c] =
                 IF ctxCancelled \/ ~storeOk THEN Advance(@)
                 ELSE IF IsEmailProcessed(Cur(c))
                      THEN Advance([@ EXCEPT !.skipped = @ \cup {Cur(c)}])
                      ELSE [@ EXCEPT !.pc = "match"]]
    /\ auditLog' = IF ~ctxCancelled /\ storeOk /\ IsEmailProcessed(Cur(c))
                   THEN LogForwardAttempt(auditLog, Cur(c), 0, "skipped", TRUE)
                   ELSE auditLog
    /\ UNCHANGED << schedVars, callVars, launched, processed, delivered, metrics >>
    /\ UNCHANGED << fetcherVars, harnessVars, mainPc >>

\* a check step that takes a failed ledger read for "not processed"
CheckMsgIgnoresError(c, storeOk) ==
    /\ cyc[c].pc = "check"
    /\ cyc' = [cyc EXCEPT ![c] =
                 IF ctxCancelled THEN Advance(@)
                 ELSE IF storeOk /\ IsEmailProcessed(Cur(c))
                      THEN Advance([@ EXCEPT !.skipped = @ \cup {Cur(c)}])
                      ELSE [@ EXCEPT !.pc = "match"]]
    /\ UNCHANGED << schedVars, callVars, launched, storeVars >>
    /\ UNCHANGED << fetcherVars, harnessVars, mainPc >>

\* a check step without the cancellation check
CheckMsgIgnoresCancel(c, storeOk) ==
    /\ cyc[c].pc = "check"
    /\ cyc' = [cyc EXCEPT ![c] =
                 IF ~storeOk THEN Advance(@)
                 ELSE IF IsEmailProcessed(Cur(c))
                      THEN Advance([@ EXCEPT !.skipped = @ \cup {Cur(c)}])
                      ELSE [@ EXCEPT !.pc = "match"]]
    /\ UNCHANGED << schedVars, callVars, launched, storeVars >>
    /\ UNCHANGED << fetcherVars, harnessVars, mainPc >>

\* processEmail: the cancellation check, then IsEmailProcessed.  A cancelled
\* context, a store error and an existing record each end the message.
CheckMsg(c, storeOk) ==
    /\ cyc[c].pc = "check"
    /\ cyc' = [cyc EXCEPT ![c] =
                 IF ctxCancelled \/ ~storeOk THEN Advance(@)
                 ELSE IF IsEmailProcessed(Cur(c))
                      THEN Advance([@ EXCEPT !.skipped = @ \cup {Cur(c)}])
                      ELSE [@ EXCEPT !.pc = "match"]]
    /\ UNCHANGED << schedVars, callVars, launched, storeVars >>
    /\ UNCHANGED << fetcherVars, harnessVars, mainPc >>

\* a match step that logs "skipped" for a message without a rule and leaves
\* the ledger alone
MatchMsgNoMark(c, matchOk, logOk, markOk) ==
    /\ cyc[c].pc = "match"
    /\ LET m == Cur(c)
           rule == ParseAndMatchEmail(m)
       IN  IF ~matchOk /\ ExtractKeyword(Subject(m)) # <<>>
           THEN /\ auditLog' = LogForwardAttempt(auditLog, m, 0, "error", logOk)
                /\ cyc' = [cyc EXCEPT ![c] = Advance(@)]
                /\ UNCHANGED << processed, metrics >>
           ELSE IF rule = 0
           THEN /\ auditLog' = LogForwardAttempt(auditLog, m, 0, "skipped", logOk)
                /\ cyc' = [cyc EXCEPT ![c] = Advance(@)]
                /\ UNCHANGED << processed, metrics >>
           ELSE /\ metrics' = [metrics EXCEPT !.MatchCount = @ + 1]
                /\ cyc' = [cyc EXCEPT ![c].pc = "forward"]
                /\ UNCHANGED << processed, auditLog >>
    /\ UNCHANGED << schedVars, callVars, launched, delivered >>
    /\ UNCHANGED << fetcherVars, harnessVars, mainPc >>

\* a match step that marks the message processed when the rule lookup fails
MatchMsgErrorMarks(c, matchOk, logOk, markOk) ==
    /\ cyc[c].pc = "match"
    /\ LET m == Cur(c)
           rule == ParseAndMatchEmail(m)
       IN  IF ~matchOk /\ ExtractKeyword(Subject(m)) # <<>>
           THEN /\ auditLog' = LogForwardAttempt(auditLog, m, 0, "error", logOk)
                /\ processed' = MarkEmailAsProcessed(m, markOk)
                /\ cyc' = [cyc EXCEPT ![c] = Advance(@)]
                /\ UNCHANGED metrics
           ELSE IF rule = 0
           THEN /\ auditLog' = LogForwardAttempt(auditLog, m, 0, "skipped", logOk)
                /\ processed' = MarkEmailAsProcessed(m, markOk)
                /\ cyc' = [cyc EXCEPT ![c] = Advance(@)]
                /\ UNCHANGED metrics
           ELSE /\ metrics' = [metrics EXCEPT !.MatchCount = @ + 1]
                /\ cyc' = [cyc EXCEPT ![c].pc = "forward"]
                /\ UNCHANGED << processed, auditLog >>
    /\ UNCHANGED << schedVars, callVars, launched, delivered >>
    /\ UNCHANGED << fetcherVars, harnessVars, mainPc >>

\* processEmail: ParseAndMatchEmail.  A store error is logged as "error"; no
\* rule is logged as "skipped" and the message marked processed; a rule
\* counts a match and goes on to the forward.
MatchMsg(c, matchOk, logOk, markOk) ==
    /\ cyc[c].pc = "match"
    /\ LET m == Cur(c)
           rule == ParseAndMatchEmail(m)
       IN  IF ~matchOk /\ ExtractKeyword(Subject(m)) # <<>>
           THEN /\ auditLog' = LogForwardAttempt(auditLog, m, 0, "error", logOk)
                /\ cyc' = [cyc EXCEPT ![c] = Advance(@)]
                /\ UNCHANGED << processed, metrics >>
           ELSE IF rule = 0
           THEN /\ auditLog' = LogForwardAttempt(auditLog, m, 0, "skipped", logOk)
                /\ processed' = MarkEmailAsProcessed(m, markOk)
                /\ cyc' = [cyc EXCEPT ![c] = Advance(@)]
                /\ UNCHANGED metrics
           ELSE /\ metrics' = [metrics EXCEPT !.MatchCount = @ + 1]
                /\ cyc' = [cyc EXCEPT ![c].pc = "forward"]
                /\ UNCHANGED << processed, auditLog >>
    /\ UNCHANGED << schedVars, callVars, launched, delivered >>
    /\ UNCHANGED << fetcherVars, harnessVars, mainPc >>

\* a forward whose failure ends the whole cycle
ForwardMsgAborts(c, sink, logOk) ==
    /\ cyc[c].pc = "forward"
    /\ LET m == Cur(c)
       IN  IF ForwardEmail(sink).ok
           THEN /\ delivered' = [delivered EXCEPT ![m] = @ + 1]
                /\ cyc' = [cyc EXCEPT ![c].pc = "mark",
                                      ![c].dispatched = @ \cup {m}]
                /\ UNCHANGED << auditLog, metrics >>
           ELSE /\ auditLog' = LogForwardAttempt(auditLog, m, ParseAndMatchEmail(m),
                                                 "failure", logOk)
                /\ metrics' = [metrics EXCEPT !.ForwardFailures = @ + 1]
                /\ cyc' = [cyc EXCEPT ![c].pc = "end"]
                /\ UNCHANGED delivered
    /\ UNCHANGED << schedVars, callVars, launched, processed >>
    /\ UNCHANGED << fetcherVars, harnessVars, mainPc >>

\* processEmail: ForwardEmail against a sink that behaves as given.  On
\* failure the attempt is logged as "failure", a failure is counted and the
\* message is left unmarked.
ForwardMsg(c, sink, logOk) ==
    /\ cyc[c].pc = "forward"
    /\ LET m == Cur(c)
       IN  IF ForwardEmail(sink).ok
           THEN /\ delivered' = [delivered EXCEPT ![m] = @ + 1]
                /\ cyc' = [cyc EXCEPT ![c].pc = "mark",
                                      ![c].dispatched = @ \cup {m}]
                /\ UNCHANGED << auditLog, metrics >>
           ELSE /\ auditLog' = LogForwardAttempt(auditLog, m, ParseAndMatchEmail(m),
                                                 "failure", logOk)
                /\ metrics' = [metrics EXCEPT !.ForwardFailures = @ + 1]
                /\ cyc' = [cyc EXCEPT ![c] = Advance(@)]
                /\ UNCHANGED delivered
    /\ UNCHANGED << schedVars, callVars, launched, processed >>
    /\ UNCHANGED << fetcherVars, harnessVars, mainPc >>

\* processEmail after a successful forward: MarkEmailAsProcessed, whose error
\* is only logged; the "success" row is written after it.
FinishMsg(c, markOk) ==
    /\ cyc[c].pc = "mark"
    /\ processed' = MarkEmailAsProcessed(Cur(c), markOk)
    /\ cyc' = [cyc EXCEPT ![c].pc = "log"]
    /\ UNCHANGED << schedVars, callVars, launched, auditLog, delivered, metrics >>
    /\ UNCHANGED << fetcherVars, harnessVars, mainPc >>

\* processEmail, its end: the "success" log row (its error ignored) and the
\* success counter, then back to the range loop.
LogSuccess(c, logOk) ==
    /\ cyc[c].pc = "log"
    /\ auditLog' = LogForwardAttempt(auditLog, Cur(c), ParseAndMatchEmail(Cur(c)),
                                     "success", logOk)
    /\ metrics' = [metrics EXCEPT !.ForwardSuccesses = @ + 1]
    /\ cyc' = [cyc EXCEPT ![c] = Advance(@)]
    /\ UNCHANGED << schedVars, callVars, launched, processed, delivered >>
    /\ UNCHANGED << fetcherVars, harnessVars, mainPc >>

\* processEmails returns: wg.Done, and for a cron job the job wait group's Done
CycleEnd(c) ==
    /\ cyc[c].pc = "end"
    /\ cyc' = [cyc EXCEPT ![c] = FreeCycle]
    /\ UNCHANGED << schedVars, callVars, launched, storeVars >>
    /\ UNCHANGED << fetcherVars, harnessVars, mainPc >>

\* --------------------------------------------------------------- shutdown
\* the cycles counted by s.wg: wg.Add(1) is the first statement of
\* processEmails, so a cycle that was launched but has not run yet is not
\* counted
WaitGroup == { c \in Slots : cyc[c].pc \notin {"free", "start"} }

\* main after the interrupt signal: scheduler.Stop()
MainStopBegin ==
    /\ mainPc = "serving"
    /\ StopEnter
    /\ mainPc' = IF isRunning THEN "stopping" ELSE "wait"

\* main: its Stop() call has returned
MainStopReturn ==
    /\ mainPc = "stopping"
    /\ stopPc = "idle"
    /\ mainPc' = "wait"
    /\ UNCHANGED << schedVars, callVars, cyc, launched, storeVars, fetcherVars,
                    harnessVars >>

\* main: scheduler.Wait(), that is s.wg.Wait(), returns
MainWait ==
    /\ mainPc = "wait"
    /\ WaitGroup = {}
    /\ mainPc' = "shutdown"
    /\ UNCHANGED << schedVars, callVars, cyc, launched, storeVars, fetcherVars,
                    harnessVars >>

\* main: server.Shutdown(ctx) returns, because the handlers in flight have
\* returned or because the 30 s of ctx, which started before Stop(), are over;
\* from then on no request is served
MainServerShutdown ==
    /\ mainPc = "shutdown"
    /\ mainPc' = "close"
    /\ UNCHANGED << schedVars, callVars, cyc, launched, storeVars, fetcherVars,
                    harnessVars >>

\* main: fetcher.Close() and forwarder.Close()
MainClose ==
    /\ mainPc = "close"
    /\ mainPc' = "closed"
    /\ UNCHANGED << schedVars, callVars, cyc, launched, storeVars, fetcherVars,
                    harnessVars >>

\* the HTTP server accepts requests
ServerUp == mainPc \in {"serving", "stopping", "wait", "shutdown"}

\* ---------------------------------------------------------- specifications
\* The control plane: calls made through the REST handlers.
Control ==
    \/ Start
    \/ StopBegin
    \/ StopDrained
    \/ StopTimeout
    \/ IsRunning
    \/ GetNextRun
    \/ GetLastRun

\* One step of the cycle in slot c.  storeOks are the outcomes the ledger and
\* rule lookups may have, logOks those of the audit writes, batches the
\* batches the source may return.
CycleStep(c, storeOks, logOks, batches) ==
    \/ CycleStart(c)
    \/ FetchQuery(c)
    \/ \E ok \in BOOLEAN, b \in batches : Fetch(c, ok, b)
    \/ \E ok \in storeOks : CheckMsg(c, ok)
    \/ \E ok1, ok3 \in storeOks, ok2 \in logOks : MatchMsg(c, ok1, ok2, ok3)
    \/ \E sink \in Sinks, ok2 \in logOks : ForwardMsg(c, sink, ok2)
    \/ \E ok \in storeOks : FinishMsg(c, ok)
    \/ \E ok \in logOks : LogSuccess(c, ok)
    \/ CycleEnd(c)

\* Every behaviour: cycles may overlap, the source, the sink and the store may
\* fail.
Next ==
    \/ Control
    \/ \E c \in Slots : TimerFire(c)
    \/ \E c \in Slots : RunOnce(c)
    \/ \E c \in Slots : CycleStep(c, BOOLEAN, BOOLEAN, Batches)

Spec == Init /\ [][Next]_vars

\* Non-overlapping cycles (a cycle is launched only when none is in flight)
\* over a store that does not fail.
NextSeq ==
    \/ Control
    \/ \E c \in Slots : InFlight = {} /\ TimerFire(c)
    \/ \E c \in Slots : InFlight = {} /\ RunOnce(c)
    \/ \E c \in Slots : CycleStep(c, {TRUE}, {TRUE}, Batches)

SpecSeq == Init /\ [][NextSeq]_vars

\* Non-overlapping cycles over a store that may fail.
NextSeqFail ==
    \/ Control
    \/ \E c \in Slots : InFlight = {} /\ TimerFire(c)
    \/ \E c \in Slots : InFlight = {} /\ RunOnce(c)
    \/ \E c \in Slots : CycleStep(c, BOOLEAN, BOOLEAN, Batches)

SpecSeqFail == Init /\ [][NextSeqFail]_vars

\* A started scheduler whose timer cycles overlap; the ledger reads and
\* writes and the rule lookups may fail, the audit writes succeed.
NextLedger ==
    \/ Start
    \/ \E c \in Slots : TimerFire(c)
    \/ \E c \in Slots : CycleStep(c, BOOLEAN, {TRUE}, Batches)

SpecLedger == Init /\ [][NextLedger]_vars

\* A started scheduler whose timer cycles do not overlap; the ledger reads
\* and writes and the rule lookups may fail, the audit writes succeed.
NextLookup ==
    \/ Start
    \/ \E c \in Slots : InFlight = {} /\ TimerFire(c)
    \/ \E c \in Slots : CycleStep(c, BOOLEAN, {TRUE}, Batches)

SpecLookup == Init /\ [][NextLookup]_vars

\* The scheduler over a source without new mail (the dummyFetcher of
\* TestSchedulerRestart: every batch is empty), whose fetch may also fail.
NextCtl ==
    \/ Control
    \/ \E c \in Slots : TimerFire(c)
    \/ \E c \in Slots : RunOnce(c)
    \/ \E c \in Slots : CycleStart(c)
    \/ \E c \in Slots : FetchQuery(c)
    \/ \E c \in Slots, ok \in BOOLEAN : Fetch(c, ok, <<>>)
    \/ \E c \in Slots : CycleEnd(c)

SpecCtl == Init /\ [][NextCtl]_vars

\* The process from its start to the end of main: the REST handlers are served
\* until server.Shutdown, the source has no new mail.
NextShutdown ==
    \/ ServerUp /\ Control
    \/ \E c \in Slots : ServerUp /\ RunOnce(c)
    \/ \E c \in Slots : TimerFire(c)
    \/ \E c \in Slots : CycleStart(c)
    \/ \E c \in Slots : FetchQuery(c)
    \/ \E c \in Slots, ok \in BOOLEAN : Fetch(c, ok, <<>>)
    \/ \E c \in Slots : CycleEnd(c)
    \/ MainStopBegin
    \/ MainStopReturn
    \/ MainWait
    \/ MainServerShutdown
    \/ MainClose

SpecShutdown == Init /\ [][NextShutdown]_vars

\* Stop's select returns once one of its cases is ready: the cron's Done
\* channel, or the timer after its 30 s.  Nothing is assumed of the cycles.
SpecCtlLive == SpecCtl /\ WF_vars(StopDrained \/ StopTimeout)

\* A ForwardEmail call made on its own against the sink drawn at the start.
ForwardCall ==
    /\ fwdCall.state = "ready"
    /\ fwdCall' = [fwdCall EXCEPT !.state = "returned",
                                  !.res = ForwardEmail(fwdCall.sink)]
    /\ UNCHANGED << schedVars, callVars, cyc, launched, storeVars, fetcherVars,
                    parserCall, mainPc >>

InitFwd ==
    /\ InitApp
    /\ parserCall = IdleParse
    /\ fwdCall \in { [state |-> "ready", sink |-> sink, res |-> <<>>] :
                        sink \in SinkBehaviours }

\* The forwarder alone: one ForwardEmail call for every behaviour of the sink.
SpecFwd == InitFwd /\ [][ForwardCall]_vars

\* The characters of the keys handed to findMatchingRule on its own, and the
\* keys: the non-empty strings over them (ParseAndMatchEmail never passes the
\* empty keyword on).
KeyChars == {"a", "b", "B", "q", "_", "%"}
Keys == UNION { [1..n -> KeyChars] : n \in 1..MaxKeyLen }

\* A findMatchingRule call made on its own with the key drawn at the start.
MatchCall ==
    /\ parserCall.op = "match"
    /\ parserCall.state = "ready"
    /\ parserCall' = [parserCall EXCEPT !.state = "returned",
                                        !.res = findMatchingRule(parserCall.arg)]
    /\ UNCHANGED << schedVars, callVars, cyc, launched, storeVars, fetcherVars,
                    fwdCall, mainPc >>

\* The characters of the subjects handed to ExtractKeyword on its own, and
\* the subjects: every string over them, the empty one included.
SubjectChars == {"a", "b", " ", "-"}
Subjects == UNION { [1..n -> SubjectChars] : n \in 0..MaxSubjectLen }

\* An ExtractKeyword call made on its own with the subject drawn at the start.
ExtractCall ==
    /\ parserCall.op = "extract"
    /\ parserCall.state = "ready"
    /\ parserCall' = [parserCall EXCEPT !.state = "returned",
                                        !.res = ExtractKeyword(parserCall.arg)]
    /\ UNCHANGED << schedVars, callVars, cyc, launched, storeVars, fetcherVars,
                    fwdCall, mainPc >>

\* A ParseAndMatchEmail call made on its own with the subject drawn at the
\* start.
ParseCall ==
    /\ parserCall.op = "parse"
    /\ parserCall.state = "ready"
    /\ parserCall' = [parserCall EXCEPT !.state = "returned",
                                        !.res = ParseAndMatchSubject(parserCall.arg)]
    /\ UNCHANGED << schedVars, callVars, cyc, launched, storeVars, fetcherVars,
                    fwdCall, mainPc >>

InitParser ==
    /\ InitApp
    /\ fwdCall = IdleCall
    /\ parserCall \in
          { [op |-> "match", state |-> "ready", arg |-> k, res |-> <<>>] :
               k \in Keys }
          \cup
          { [op |-> "extract", state |-> "ready", arg |-> subject, res |-> <<>>] :
               subject \in Subjects }
          \cup
          { [op |-> "parse", state |-> "ready", arg |-> subject, res |-> <<>>] :
               subject \in Subjects }

NextParser ==
    \/ MatchCall
    \/ ExtractCall
    \/ ParseCall

\* The parser alone: one call for every argument.
SpecParser == InitParser /\ [][NextParser]_vars

\* ----------------------------------------------------------------- claims

\* C1: over non-overlapping cycles and a store that does not fail, the sink
\* accepts each message id at most once.
C1_AtMostOnceSequential == \A m \in Msgs : delivered[m] <= 1

\* C1 witness: a cycle has re-fetched a message that an earlier cycle
\* forwarded, found it processed and skipped it.
C1_Witness ==
    \E c \in Slots, m \in Msgs :
        /\ m \in cyc[c].skipped
        /\ m \notin cyc[c].dispatched
        /\ delivered[m] = 1

\* C2: when two overlapping cycles have fetched the same message id, at most
\* one of them dispatches it.
C2_OverlapSingleDispatch ==
    \A c1, c2 \in Slots :
        c1 # c2 => cyc[c1].dispatched \cap cyc[c2].dispatched = {}

\* C3: the ledger holds at most one ProcessedRecord per message id.
C3_AtMostOneRecord == \A m \in Msgs : processed[m] <= 1

\* C3 witness: two cycles have both forwarded a message and both gone through
\* the ledger insert for it: one is past its insert, the other has ended.
C3_Witness ==
    \E m \in Msgs :
        /\ delivered[m] = 2
        /\ processed[m] = 1
        /\ \A c \in Slots : cyc[c].pc \in {"free", "end"}

\* C4: a message whose forward succeeded is never forwarded again by a later
\* cycle, also when the ledger insert after the forward failed.
C4_NoReforwardAfterMarkError ==
    \A c \in Slots :
        cyc[c].pc = "forward" => delivered[Cur(c)] = 0

\* C5: Start() on a Running scheduler returns the already-running error and
\* changes nothing: the flag stays true and no further cron entry is added.
C5_StartWhileRunning ==
    [][(Start /\ isRunning) =>
          /\ lastCall' = "Start:already_running"
          /\ isRunning'
          /\ UNCHANGED << entries, entryID, cronRunning, ctxCancelled, cyc >>]_vars

\* C5 witness: a Start() call on the running scheduler has been refused.
C5_Witness ==
    /\ lastCall = "Start:already_running"
    /\ isRunning
    /\ Cardinality(entries) = 1

\* C6: the scheduler is restartable: a Start() is refused only while running,
\* after a successful Start() the flag is true, after Stop() has returned it
\* is false, and IsRunning() reports the flag.
C6_Restartable ==
    /\ lastCall = "Start:ok" => isRunning
    /\ lastCall = "Start:already_running" => isRunning
    /\ lastCall \in {"Stop:graceful", "Stop:timeout", "Stop:noop"} => ~isRunning
    /\ lastCall = "IsRunning:true" => isRunning
    /\ lastCall = "IsRunning:false" => ~isRunning

\* C6 witness: Start(), Stop(), and a second Start() that succeeded.
C6_Witness ==
    /\ lastCall = "Start:ok"
    /\ isRunning
    /\ Cardinality(entries) = 2

\* C7: after Stop() followed by a successful Start() the cancellation signal
\* is active (not cancelled).
C7_ContextActiveAfterRestart ==
    (lastCall = "Start:ok" /\ isRunning /\ stopPc = "idle") => ~ctxCancelled

\* C8: while Stop() is waiting for the drain, the running flag is already
\* false and IsRunning() can read it.
C8_StoppedFlagDuringDrain ==
    stopPc = "waiting" => (~isRunning /\ ENABLED IsRunning)

\* C9: when Stop() returns before the grace period has elapsed, every cycle
\* that was in flight at the call, timer-started or RunOnce, has finished.
C9_StopDrainsAllCycles ==
    lastCall = "Stop:graceful" => \A c \in Slots : ~cyc[c].atStop

\* C10: Stop() always returns, through the grace period when the cycles in
\* flight never finish, and the timeout leaves the cycles in flight alone.
C10_StopReturns ==
    /\ (stopPc = "waiting") ~> (stopPc = "idle")
    /\ [][StopTimeout => cyc' = cyc]_vars

\* C10 witness: Stop() has returned through the timeout while a cycle that
\* was in flight at the call is still in flight.
C10_Witness ==
    /\ lastCall = "Stop:timeout"
    /\ \E c \in Slots : cyc[c].atStop /\ cyc[c].pc # "free"

\* C11: Stop() on a Stopped scheduler returns nil at once and changes nothing:
\* the flag stays false, the context, the cron and its entries are untouched,
\* and the call neither waits nor keeps the mutex.
C11_StopWhenStopped ==
    [][(StopBegin /\ ~isRunning) =>
          /\ lastCall' = "Stop:noop"
          /\ ~isRunning'
          /\ UNCHANGED << ctxCancelled, cronRunning, entries, entryID,
                          muHolder, stopPc, cyc >>]_vars

\* C11 witness: Stop() has returned as a no-op on a scheduler that an earlier
\* Stop() had already stopped.
C11_Witness ==
    /\ lastCall = "Stop:noop"
    /\ ~isRunning
    /\ ctxCancelled
    /\ entries # {}

\* C12: RunOnce() runs one full cycle whether the scheduler is Running or
\* Stopped: the cycle it starts always goes on from its running check to the
\* fetch.
C12_RunOnceAlwaysFetches ==
    [][\A c \in Slots :
          (cyc[c].origin = "runonce" /\ CycleStart(c)) => cyc'[c].pc = "fetch"]_vars

\* C13: RunOnce() leaves the control state alone: no step of the call, from
\* its entry to the return of its cycle, changes the running flag, the cron
\* and its entries, or the cancellation signal.
C13_RunOnceKeepsControlState ==
    [][\A c \in Slots :
          (\/ RunOnce(c)
           \/ /\ cyc[c].origin = "runonce"
              /\ CycleStep(c, BOOLEAN, BOOLEAN, Batches))
          => UNCHANGED << isRunning, cronRunning, entries, entryID,
                          ctxCancelled >>]_vars

\* C13 witness: a RunOnce() on the running scheduler has forwarded a message
\* and is about to return; the flag, the entry and the context are as Start()
\* left them.
C13_Witness ==
    \E c \in Slots :
        /\ cyc[c].origin = "runonce"
        /\ cyc[c].pc = "end"
        /\ cyc[c].dispatched # {}
        /\ isRunning
        /\ ~ctxCancelled
        /\ entries = {1}

\* C14: no suspension point holds the scheduler lock: while a cycle is blocked
\* in its fetch or in its forward, and while Stop() is blocked in its grace
\* wait, IsRunning(), GetNextRun() and GetLastRun() can complete.
C14_ControlReadsNeverBlock ==
    (\/ stopPc = "waiting" /\ JobWaiter # {}
     \/ \E c \in Slots : cyc[c].pc \in {"list", "forward"})
    => (ENABLED IsRunning /\ ENABLED GetNextRun /\ ENABLED GetLastRun)

\* the outcome of the last forward_logs row of message m, "none" without one
LastStatus(m) ==
    LET rows == { i \in 1..Len(auditLog) : auditLog[i].MessageID = m }
    IN  IF rows = {} THEN "none"
        ELSE auditLog[CHOOSE i \in rows : \A j \in rows : j <= i].Status

C16_CheckpointAfterBatch ==
    [][lastCheck' # lastCheck =>
          \E c \in Slots :
              /\ cyc[c].pc \in {"check", "match", "forward", "mark", "log"}
              /\ cyc'[c].pc = "end"]_vars

\* C17: no fetched message is lost.  A message that the checkpoint has passed
\* and that has no ProcessedRecord is still ahead of a cycle in flight (in
\* its batch, or in the window of its pending query), or a later fetch can
\* return it again.
C17_NoFetchedMessageLost ==
    \A i \in 1..Len(Mailbox) :
        (i <= lastCheck /\ processed[Mailbox[i]] = 0) =>
            \/ useIMAP
            \/ \E c \in Slots :
                   /\ cyc[c].pc \in {"check", "match", "forward", "mark", "log"}
                   /\ \E j \in cyc[c].idx..Len(cyc[c].batch) :
                          cyc[c].batch[j] = Mailbox[i]
            \/ \E c \in Slots : cyc[c].pc = "list" /\ cyc[c].since < i

\* C18: against a sink that answers the first two attempts with a rate-limit
\* error and the third with success, ForwardEmail returns nil after exactly
\* three sends, having slept exactly twice: 1 s, then 4 s.
C18_RateLimitTwiceThenOk ==
    (/\ fwdCall.state = "returned"
     /\ fwdCall.sink[1] = "rate"
     /\ fwdCall.sink[2] = "rate"
     /\ fwdCall.sink[3] = "ok")
    => (/\ fwdCall.res.ok
        /\ fwdCall.res.attempts = 3
        /\ fwdCall.res.waits = <<1, 4>>)

\* C18 witness: the call against such a sink has returned nil.
C18_Witness ==
    /\ fwdCall.state = "returned"
    /\ SubSeq(fwdCall.sink, 1, 3) = <<"rate", "rate", "ok">>
    /\ fwdCall.res.ok

\* C19: the first error that is not a rate-limit error ends the retry loop at
\* once: when it answers attempt i, after rate-limit errors only, ForwardEmail
\* returns that error after exactly i sends and i - 1 sleeps; for i = 1,
\* after one send and no sleep.
C19_OtherErrorEndsLoop ==
    fwdCall.state = "returned" =>
        \A i \in 1..MaxAttempts :
            (/\ fwdCall.sink[i] = "other"
             /\ \A j \in 1..(i - 1) : fwdCall.sink[j] = "rate")
            => (/\ ~fwdCall.res.ok
                /\ fwdCall.res.err = "other"
                /\ fwdCall.res.attempts = i
                /\ fwdCall.res.waits = [j \in 1..(i - 1) |-> j * j])

\* C19 witness: the sink refused the first attempt with another error and
\* would have accepted a second one; the call returned the error after one
\* send and no sleep.
C19_Witness ==
    /\ fwdCall.state = "returned"
    /\ fwdCall.sink[1] = "other"
    /\ fwdCall.sink[2] = "ok"
    /\ fwdCall.res.attempts = 1
    /\ fwdCall.res.waits = <<>>
    /\ ~fwdCall.res.ok

\* C20: whatever the sink does, a ForwardEmail call returns, after at least
\* one and at most three sends.
C20_AttemptsBounded ==
    /\ fwdCall.state = "ready" => ENABLED ForwardCall
    /\ fwdCall.state = "returned" =>
           (fwdCall.res.attempts >= 1 /\ fwdCall.res.attempts <= MaxAttempts)

\* C20 witness: the sink kept answering with rate-limit errors and would have
\* accepted a fourth attempt; the call returned an error after three sends.
C20_Witness ==
    /\ fwdCall.state = "returned"
    /\ fwdCall.sink = <<"rate", "rate", "rate", "ok">>
    /\ fwdCall.res.attempts = 3
    /\ ~fwdCall.res.ok

\* C21: ForwardEmail never swallows a failure: it returns nil exactly when one
\* of the sends it made succeeded, and the error it returns wraps the error
\* of the last send it made.
C21_NoSwallowedFailure ==
    fwdCall.state = "returned" =>
        /\ fwdCall.res.ok <=>
               \E i \in 1..fwdCall.res.attempts : fwdCall.sink[i] = "ok"
        /\ ~fwdCall.res.ok =>
               /\ fwdCall.res.err # "none"
               /\ fwdCall.res.err = fwdCall.sink[fwdCall.res.attempts]

\* C21 witness: a rate-limit error, then another error, then a sink that
\* would accept: the call returned the second error.
C21_Witness ==
    /\ fwdCall.state = "returned"
    /\ SubSeq(fwdCall.sink, 1, 3) = <<"rate", "other", "ok">>
    /\ ~fwdCall.res.ok
    /\ fwdCall.res.err = "other"

\* s contains k as a substring, ignoring case
IsSubstring(s, k) ==
    \E i \in 1..(Len(s) + 1) :
        /\ i + Len(k) - 1 <= Len(s)
        /\ LowerStr(SubSeq(s, i, i + Len(k) - 1)) = LowerStr(k)

\* the ids of the enabled rules in the given set of rows
EnabledIDs(rows) == { Rules[i].ID : i \in { j \in rows : Rules[j].Enabled } }

\* C22: findMatchingRule considers enabled rules only and answers from the
\* first tier that has a hit: exact match, then case-insensitive match, then
\* the rules whose keyword contains the key; with no hit in any tier it
\* returns nil.
C22_TieredResolve ==
    (parserCall.op = "match" /\ parserCall.state = "returned") =>
        LET key == parserCall.arg
            r == parserCall.res
            rows == 1..Len(Rules)
            t1 == EnabledIDs({ i \in rows : Rules[i].Keyword = key })
            t2 == EnabledIDs({ i \in rows : LowerStr(Rules[i].Keyword) = LowerStr(key) })
            t3 == EnabledIDs({ i \in rows : IsSubstring(Rules[i].Keyword, key) })
        IN  IF t1 # {} THEN r \in t1
            ELSE IF t2 # {} THEN r \in t2
            ELSE IF t3 # {} THEN r \in t3
            ELSE r = 0

\* C23: the substring tier matches in one direction only: when no enabled
\* rule equals the key, also ignoring case, a rule is returned only if its
\* keyword contains the key as a substring.
C23_SubstringOneWay ==
    (/\ parserCall.op = "match"
     /\ parserCall.state = "returned"
     /\ parserCall.res # 0
     /\ EnabledIDs({ i \in 1..Len(Rules) :
                        LowerStr(Rules[i].Keyword) = LowerStr(parserCall.arg) }) = {})
    => \E i \in 1..Len(Rules) :
           /\ Rules[i].ID = parserCall.res
           /\ IsSubstring(Rules[i].Keyword, parserCall.arg)

\* C24: ExtractKeyword is total and follows the parsing rule: the subject is
\* trimmed; if it contains a "-" the key is what precedes the first "-",
\* trimmed, also when nothing precedes or follows the "-"; otherwise the key
\* is the first whitespace-delimited token; an empty or blank subject gives
\* the empty key.
C24_ExtractKeyRule ==
    /\ (parserCall.op = "extract" /\ parserCall.state = "ready")
          => ENABLED ExtractCall
    /\ (parserCall.op = "extract" /\ parserCall.state = "returned") =>
          LET t == TrimSpace(parserCall.arg)
              d == FirstDash(t)
          IN  parserCall.res = IF d > 0 THEN TrimSpace(SubSeq(t, 1, d - 1))
                               ELSE FirstField(t)

\* C25: at shutdown the fetcher and the forwarder are closed only after every
\* cycle has finished: when main calls Close(), no cycle is fetching,
\* processing a message or writing to the store.
C25_CloseAfterCycles ==
    [][MainClose => \A c \in Slots : cyc[c].pc \in {"free", "start", "end"}]_vars

\* C26: the running flag is read and written under the scheduler's mutex
\* only: while an operation holds the mutex exclusively, no operation can read
\* the flag, neither IsRunning, GetNextRun, GetLastRun nor a cycle's running
\* check.
C26_FlagUnderMutex ==
    muHolder # "none" =>
        /\ ~ENABLED IsRunning
        /\ ~ENABLED GetNextRun
        /\ ~ENABLED GetLastRun
        /\ \A c \in Slots : ~ENABLED CycleStart(c)

\* C27: MarkEmailAsProcessed is idempotent: when a cycle calls it for a message
\* that already has a ProcessedRecord, over a store that works, the ledger
\* stays as it is and the call returns no error.
C27_MarkIdempotent ==
    \A c \in Slots :
        (cyc[c].pc = "mark" /\ processed[Cur(c)] > 0) =>
            /\ MarkEmailAsProcessed(Cur(c), TRUE) = processed
            /\ ~MarkEmailAsProcessedError(Cur(c), TRUE)

\* the forward_logs rows of message m
RowsOf(m) == { i \in 1..Len(auditLog) : auditLog[i].MessageID = m }

\* C28: over non-overlapping cycles and a store that does not fail, a message
\* for which no rule resolves is never dispatched (no delivery, no cycle at the
\* forward or the mark step on it); it has at most one audit row, with outcome
\* "skipped" and no rule id, however often it is fetched again; and it has
\* that row exactly when it has a ProcessedRecord.
C28_NoRuleSkipped ==
    \A m \in Msgs :
        ParseAndMatchEmail(m) = 0 =>
            /\ delivered[m] = 0
            /\ \A c \in Slots :
                   cyc[c].pc \in {"forward", "mark", "log"} => Cur(c) # m
            /\ Cardinality(RowsOf(m)) <= 1
            /\ \A i \in RowsOf(m) :
                   auditLog[i].Status = "skipped" /\ auditLog[i].RuleID = 0
            /\ (processed[m] = 1) <=> (RowsOf(m) # {})

\* a later cycle fetched the skipped message m2 again and went past it
C28_Witness ==
    \E c \in Slots :
        /\ "m2" \in cyc[c].skipped
        /\ cyc[c].pc = "end"
        /\ ParseAndMatchEmail("m2") = 0
        /\ Cardinality(RowsOf("m2")) = 1
        /\ processed["m2"] = 1
        /\ delivered["m2"] = 0

\* C29: processing a message that already has a ProcessedRecord changes
\* nothing.  Whenever a cycle leaves the check step on a message with a
\* record, the ledger, the audit log, the deliveries and the counters are what
\* they were, and the cycle is at the next message's check or at its end: it
\* never reaches the rule lookup, the forward or the mark for that message.
C29_ReplayIsNoOp ==
    [][\A c \in Slots :
          ( /\ cyc[c].pc = "check"
            /\ processed[Cur(c)] > 0
            /\ << cyc'[c].pc, cyc'[c].idx >> # << cyc[c].pc, cyc[c].idx >> )
          => /\ UNCHANGED << processed, auditLog, delivered, metrics >>
             /\ \/ cyc'[c].pc = "end"
                \/ cyc'[c].pc = "check" /\ cyc'[c].idx = cyc[c].idx + 1]_vars

\* a cycle has found a record for a message of its batch and passed it by
C29_Witness ==
    \E c \in Slots :
        \E m \in cyc[c].skipped :
            /\ processed[m] > 0
            /\ RowsOf(m) # {}
            /\ cyc[c].pc \in {"check", "end"}

C31_CheckGuardsDispatch ==
    [][\A c \in Slots :
          /\ (cyc[c].pc = "check" /\ CheckMsg(c, FALSE))
                => /\ UNCHANGED << processed, auditLog, delivered, metrics >>
                   /\ IF cyc[c].idx < Len(cyc[c].batch)
                      THEN cyc'[c].pc = "check" /\ cyc'[c].idx = cyc[c].idx + 1
                      ELSE cyc'[c].pc = "end"
          /\ (cyc'[c].pc = "match" /\ cyc[c].pc # "match")
                => /\ cyc[c].pc = "check"
                   /\ processed[Cur(c)] = 0
                   /\ cyc'[c].idx = cyc[c].idx
          /\ (cyc'[c].pc = "forward" /\ cyc[c].pc # "forward")
                => cyc[c].pc = "match" /\ cyc'[c].idx = cyc[c].idx
          /\ (cyc'[c].dispatched # cyc[c].dispatched /\ cyc'[c].pc # "free")
                => cyc[c].pc = "forward"]_vars

\* the ledger read for m1 failed: the cycle is at m2 and m1 has no audit row,
\* no record and no delivery (every other way past m1 writes an audit row)
C31_Witness ==
    \E c \in Slots :
        /\ cyc[c].pc = "check"
        /\ cyc[c].batch = << "m1", "m2" >>
        /\ cyc[c].idx = 2
        /\ ~ctxCancelled
        /\ cyc[c].skipped = {}
        /\ auditLog = <<>>
        /\ processed["m1"] = 0
        /\ delivered["m1"] = 0

\* C32: the ledger insert is the commit point.  In every reachable state a
\* message with a ProcessedRecord has an audit row with outcome "success" or
\* "skipped", and a message whose last audit outcome is "failure" or "error"
\* has no ProcessedRecord.
C32_LedgerIsCommitPoint ==
    \A m \in Msgs :
        /\ processed[m] > 0 =>
               \E i \in RowsOf(m) : auditLog[i].Status \in {"success", "skipped"}
        /\ LastStatus(m) \in {"failure", "error"} => processed[m] = 0

\* C33: the ledger and the audit log only grow.  No step of a cycle, of
\* Start, of Stop or of RunOnce removes a ProcessedRecord, and every step
\* leaves the audit rows written so far in place, unchanged and in order.
C33_StoreOnlyGrows ==
    [][/\ \A m \in Msgs : processed'[m] >= processed[m]
       /\ Len(auditLog') >= Len(auditLog)
       /\ SubSeq(auditLog', 1, Len(auditLog)) = auditLog]_vars

\* records and audit rows written by two cycles are still there after a Stop
C33_Witness ==
    /\ ~isRunning
    /\ ctxCancelled
    /\ stopPc = "idle"
    /\ launched = MaxCycles
    /\ Len(auditLog) >= 3
    /\ \A m \in Msgs : processed[m] = 1

\* C34: cancellation is checked at message boundaries only.  With the context
\* cancelled, a cycle that leaves the check of a message goes to the next
\* message or to its end and nothing is delivered, ledgered, audited or
\* counted; a cycle that is past the check of a message still finishes it:
\* from the forward it delivers and goes on to the mark, or writes the
\* "failure" row; from the mark it goes to the "success" row, and that row is
\* written.
C34_CancelAtBoundary ==
    [][\A c \in Slots :
          (ctxCancelled
           /\ << cyc'[c].pc, cyc'[c].idx >> # << cyc[c].pc, cyc[c].idx >>) =>
             /\ cyc[c].pc = "check" =>
                    /\ UNCHANGED << processed, auditLog, delivered, metrics >>
                    /\ IF cyc[c].idx < Len(cyc[c].batch)
                       THEN cyc'[c].pc = "check" /\ cyc'[c].idx = cyc[c].idx + 1
                       ELSE cyc'[c].pc = "end"
             /\ cyc[c].pc = "forward" =>
                    \/ /\ delivered'[Cur(c)] = delivered[Cur(c)] + 1
                       /\ cyc'[c].pc = "mark"
                    \/ /\ Len(auditLog') = Len(auditLog) + 1
                       /\ auditLog'[Len(auditLog')].MessageID = Cur(c)
                       /\ auditLog'[Len(auditLog')].Status = "failure"
             /\ cyc[c].pc = "mark" =>
                    cyc'[c].pc = "log" /\ processed'[Cur(c)] = 1
             /\ cyc[c].pc = "log" =>
                    /\ Len(auditLog') = Len(auditLog) + 1
                    /\ auditLog'[Len(auditLog')].MessageID = Cur(c)
                    /\ auditLog'[Len(auditLog')].Status = "success"]_vars

\* Stop cancelled the context while the first cycle was forwarding m1: m1 was
\* delivered, ledgered and audited, m2 of the same batch was not touched
C34_Witness ==
    \E c \in Slots :
        /\ ctxCancelled
        /\ launched = 1
        /\ cyc[c].pc = "end"
        /\ cyc[c].atStop
        /\ cyc[c].batch = << "m1", "m2" >>
        /\ cyc[c].dispatched = {"m1"}
        /\ delivered["m1"] = 1 /\ processed["m1"] = 1
        /\ LastStatus("m1") = "success"
        /\ RowsOf("m2") = {} /\ processed["m2"] = 0

\* C35: a cycle whose fetch fails ends early and nothing else happens.  The
\* step in which FetchNewEmails returns an error takes the cycle to its end
\* with no batch, counts one failure, and leaves the ledger, the audit log,
\* the deliveries, the checkpoint, the running flag, the cron and its entries
\* alone; and a cycle that finds the scheduler running goes on to a fetch
\* whatever the earlier cycles did.
C35_FetchFailureEndsCycle ==
    [][\A c \in Slots :
          /\ (cyc[c].pc = "list" /\ Fetch(c, FALSE, <<>>)) =>
                /\ cyc'[c].pc = "end"
                /\ cyc'[c].batch = <<>>
                /\ metrics' = [metrics EXCEPT !.ForwardFailures = @ + 1]
                /\ UNCHANGED << processed, auditLog, delivered, lastCheck >>
                /\ UNCHANGED << isRunning, ctxCancelled, cronRunning, entries, entryID >>
          /\ (cyc[c].pc = "start" /\ isRunning /\ cyc'[c].pc # "start") =>
                cyc'[c].pc = "fetch"
          /\ (cyc[c].pc = "fetch" /\ cyc'[c].pc # "fetch") =>
                cyc'[c].pc = "list" /\ cyc'[c].since = lastCheck]_vars

\* the first cycle's fetch failed; the scheduler is still running with its one
\* entry, the checkpoint has not moved, and the next tick's cycle has sent a
\* new query
C35_Witness ==
    \E c \in Slots :
        /\ cyc[c].pc = "list"
        /\ cyc[c].origin = "tick"
        /\ launched = 2
        /\ metrics.PullCount = 2
        /\ metrics.ForwardFailures = 1
        /\ auditLog = <<>>
        /\ \A m \in Msgs : processed[m] = 0 /\ delivered[m] = 0
        /\ lastCheck = 0
        /\ isRunning /\ cronRunning /\ entries = {1}

\* C36: there is no circular wait between Stop() and a cycle.  While Stop()
\* holds the mutex and waits for the cron's jobs, no timer-started cycle is
\* waiting for that mutex at its running check; and Stop() runs into its
\* timeout only when a cycle that was past the running check at the call is
\* still in flight.
C36_NoCircularWait ==
    /\ [](\A c \in Slots :
            ~(stopPc = "waiting" /\ muHolder = "Stop"
              /\ c \in JobWaiter /\ cyc[c].pc = "start"))
    /\ [][StopTimeout =>
            \E c \in Slots : cyc[c].atStop /\ cyc[c].pc # "free"]_vars

\* C37: after any sequence of Start() and Stop() calls at most one timer entry
\* is armed while the scheduler is running: the entries added by earlier
\* Start() calls are gone.
C37_OneEntryWhileRunning ==
    isRunning => Cardinality(entries) <= 1

C39_NoTickWorkWhileStopped ==
    (~isRunning /\ stopPc = "idle") =>
        \A c \in Slots :
            cyc[c].origin = "tick" => cyc[c].pc \in {"free", "start", "end"}

\* C39, amended: the cron fires no tick while the scheduler is Stopped; a
\* timer-started cycle that makes its running check while the scheduler is
\* Stopped returns without touching the source, the sink, the ledger, the
\* audit log or the counters; and a timer-started cycle is at work in the
\* Stopped state only if it was past its running check when the last Stop()
\* began, that is, when that Stop() gave up waiting for it.
C39_StoppedTickReturns ==
    /\ [](cronRunning => isRunning)
    /\ [](\A c \in Slots :
            (~isRunning /\ stopPc = "idle" /\ cyc[c].origin = "tick"
             /\ cyc[c].pc \notin {"free", "start", "end"}) => cyc[c].atStop)
    /\ [][\A c \in Slots :
            (cyc[c].pc = "start" /\ cyc[c].origin = "tick" /\ ~isRunning
             /\ cyc'[c].pc # "start")
            => /\ cyc'[c].pc = "end"
               /\ UNCHANGED << processed, auditLog, delivered, metrics, lastCheck >>]_vars

\* a timer-started cycle has made its running check in the Stopped state and
\* returned: it is at its end and nothing was ever fetched
C39_Witness ==
    \E c \in Slots :
        /\ cyc[c].origin = "tick"
        /\ cyc[c].pc = "end"
        /\ ~isRunning
        /\ stopPc = "idle"
        /\ metrics.PullCount = 0
        /\ lastCheck = 0
        /\ auditLog = <<>>

\* C40: in one ForwardEmail call every backoff wait is followed by another
\* send: there are fewer waits than sends, and a call whose three sends all
\* fail with rate-limit errors has waited 1 s and 4 s only.
C40_NoWaitAfterLastAttempt ==
    fwdCall.state = "returned" =>
        /\ Len(fwdCall.res.waits) < fwdCall.res.attempts
        /\ (\A i \in 1..MaxAttempts : fwdCall.sink[i] = "rate")
              => fwdCall.res.waits = <<1, 4>>

====
